---- MODULE Spec2Model ----
(***************************************************************************)
(* api-mount-server, src/lib/api.ts (apiMountFactory revision, lines 1 to  *)
(* 283): the launcher table, the server registry, the route binder and the *)
(* per-request dispatch pipeline.                                          *)
(*                                                                         *)
(* Strings the code transforms (method names, class names, paths) are      *)
(* sequences of one-character strings; strings it only compares (server    *)
(* names, hook and launcher identities) are TLA+ strings.  A configuration *)
(* object is a function from its own keys to values, so that a key can be  *)
(* absent and object spread is function override.  Server names are taken  *)
(* from names that are not members of Object.prototype.                    *)
(***************************************************************************)
EXTENDS Integers, Sequences, FiniteSets, TLC

VARIABLES
    launch,      \* launcher table: server name -> launcher, NoLauncher if no own key
    launched,    \* server name -> BOOLEAN
    app,         \* server name -> transport handle, NoApp if no own key
    launchLog,   \* history: every launcher invocation, in order
    routes,      \* every app.post registration, in order
    calls,       \* history: every exposure call, in order
    requests,    \* the requests received so far, each with its Dispatch Context
    injected     \* history: the injectLaunchCode calls recorded, in order

vars == <<launch, launched, app, launchLog, routes, calls, requests, injected>>

----------------------------------------------------------------------------
(* Bounds *)

MaxExposures == 2
MaxRequests == 1
MaxInjections == 3
MaxNameLen == 3
MaxInFlight == 2

----------------------------------------------------------------------------
(* Program constants *)

DEFAULT_PORT == 3000
OtherPort == 3001

DEFAULT_NAME_PREFIX == "default_"

\* port.toString() appended to the prefix, for the ports of the model
PortName(port) == IF port = 3000 THEN "default_3000" ELSE "default_3001"

DEFAULT_NAME == PortName(DEFAULT_PORT)

Names == {"default_3000", "default_3001", "n1"}

NoLauncher == "undefined"
NoApp == 0
BuiltinLauncher == "builtin"
InjectedLaunchers == {"L1", "L2"}

----------------------------------------------------------------------------
(* Strings as character sequences, and paramCase *)

LowerChars == {"a", "b", "c", "d", "e", "f", "j", "n", "o", "s", "t"}
UpperChars == {"A", "B", "C", "F", "O"}
DigitChars == {"1"}

IsLower(c) == c \in LowerChars
IsUpper(c) == c \in UpperChars
IsDigit(c) == c \in DigitChars
IsAlnum(c) == IsLower(c) \/ IsUpper(c) \/ IsDigit(c)

\* a conversion that swaps the case of every letter
ToLowerSwapping(c) ==
    CASE c = "A" -> "a"
      [] c = "B" -> "b"
      [] c = "a" -> "A"
      [] c = "b" -> "B"
      [] OTHER -> c

ToLower(c) ==
    CASE c = "A" -> "a"
      [] c = "B" -> "b"
      [] c = "C" -> "c"
      [] c = "F" -> "f"
      [] c = "O" -> "o"
      [] OTHER -> c

\* no-case's word boundaries: before an upper-case letter that follows a
\* lower-case letter or a digit, and before the last upper-case letter of a
\* run that is followed by a lower-case letter
BoundaryBefore(s, i) ==
    /\ i > 1
    /\ IsUpper(s[i])
    /\ \/ IsLower(s[i - 1]) \/ IsDigit(s[i - 1])
       \/ IsUpper(s[i - 1]) /\ i < Len(s) /\ IsLower(s[i + 1])

\* the words of s: maximal alphanumeric runs, cut at the word boundaries
RECURSIVE SplitWords(_, _, _, _)
SplitWords(s, i, cur, acc) ==
    IF i > Len(s)
    THEN IF cur = <<>> THEN acc ELSE Append(acc, cur)
    ELSE IF ~IsAlnum(s[i])
         THEN SplitWords(s, i + 1, <<>>, IF cur = <<>> THEN acc ELSE Append(acc, cur))
         ELSE IF BoundaryBefore(s, i) /\ cur # <<>>
              THEN SplitWords(s, i + 1, <<ToLower(s[i])>>, Append(acc, cur))
              ELSE SplitWords(s, i + 1, Append(cur, ToLower(s[i])), acc)

RECURSIVE JoinWords(_)
JoinWords(ws) ==
    IF ws = <<>> THEN <<>>
    ELSE IF Len(ws) = 1 THEN ws[1]
    ELSE ws[1] \o <<"-">> \o JoinWords(Tail(ws))

paramCase(s) == JoinWords(SplitWords(s, 1, <<>>, <<>>))

----------------------------------------------------------------------------
(* Configuration objects *)

Has(cfg, key) == key \in DOMAIN cfg

\* a spread in which the first object's keys win
SpreadFirstWins(a, b) == [k \in DOMAIN a \cup DOMAIN b |-> IF k \in DOMAIN a THEN a[k] ELSE b[k]]

\* {...a, ...b}
Spread(a, b) == [k \in DOMAIN a \cup DOMAIN b |-> IF k \in DOMAIN b THEN b[k] ELSE a[k]]

EmptyConfig == [k \in {} |-> 0]

BuiltinDefaults == [port |-> DEFAULT_PORT, basePath |-> <<>>]

\* a factory that names every unnamed configuration DEFAULT_NAME
SharedConfigDefaultName(cfg) ==
    IF Has(cfg, "name") THEN cfg
    ELSE Spread(cfg, [name |-> DEFAULT_NAME])

\* the sharedConfig closed over by the object apiMountFactory returns
SharedConfigWithName(cfg) ==
    IF Has(cfg, "name") THEN cfg
    ELSE Spread(cfg, [name |-> PortName(cfg.port)])

apiMountFactory(sharedConfig) == SharedConfigWithName(Spread(BuiltinDefaults, sharedConfig))

\* the caller's object after apiMountFactory(cfg), had line 179 assigned the
\* name to the argument itself
FactoryArgumentAssigned(cfg) == apiMountFactory(cfg)

\* the caller's object after apiMountFactory(cfg): lines 172 to 176 assign a
\* new object to the parameter, and line 179 writes the name to that new object
FactoryArgumentAfter(cfg) == cfg

\* the caller's object after an exposure call with it: lines 192 to 195 and 215
\* to 218 assign a new object to the parameter
CallArgumentAfter(sharedConfig, cfg) == cfg

\* config?.hook: the hook's identity, "none" when the key is absent
HookOf(cfg, key) == IF Has(cfg, key) THEN cfg[key] ELSE "none"

----------------------------------------------------------------------------
(* API surfaces: name is the object's own name property ("" when it has    *)
(* none), ctor is obj.constructor.name, methods is what for-in enumerates  *)

PlainApi == [id |-> "plain", name |-> <<>>, ctor |-> <<"O", "b", "j", "e", "c", "t">>,
             methods |-> <<<<"a", "B">>, <<"t">>>>]
InstanceApi == [id |-> "instance", name |-> <<>>, ctor |-> <<"C", "d">>,
                methods |-> <<<<"t">>>>]
StaticApi == [id |-> "static", name |-> <<"A", "b">>, ctor |-> <<"F", "n">>,
              methods |-> <<<<"t">>>>]
AnonymousApi == [id |-> "anonymous", name |-> <<>>, ctor |-> <<>>,
                 methods |-> <<<<"t">>>>]
\* a plain record whose two method names have the same segment
CollidingApi == [id |-> "colliding", name |-> <<>>, ctor |-> <<"O", "b", "j", "e", "c", "t">>,
                 methods |-> <<<<"a", "b">>, <<"A", "B">>>>]

Surfaces == {PlainApi, InstanceApi, StaticApi, AnonymousApi, CollidingApi}
SurfaceOf(id) == CHOOSE a \in Surfaces : a.id = id

----------------------------------------------------------------------------
(* Launcher table and server registry *)

\* LauncherFor with the fallback bound to the built-in launcher instead of
\* the table's DEFAULT_NAME entry
LauncherForBuiltin(name) ==
    IF launch[name] # NoLauncher THEN launch[name] ELSE BuiltinLauncher

\* launch[name] ? launch[name] : launch[DEFAULT_NAME]
LauncherFor(name) == IF launch[name] # NoLauncher THEN launch[name] ELSE launch[DEFAULT_NAME]

\* the handle a launcher returns: a transport created by this invocation
NewHandle == Cardinality({i \in DOMAIN launchLog : launchLog[i].handle # NoApp}) + 1

\* the launcher invocation that created the transport of a launched name
Creation(name) ==
    launchLog[CHOOSE i \in DOMAIN launchLog :
                 launchLog[i].name = name /\ launchLog[i].handle # NoApp]

\* history: the name is launched and a launcher other than the one that created
\* its transport is now registered under it
Replaced(name) ==
    /\ launched[name]
    /\ launch[name] \notin {NoLauncher, Creation(name).launcher}

\* a launcher invocation may throw only if the launcher is an injected one:
\* the built-in launcher does not throw synchronously for the model's ports
MayThrow(name) == ~launched[name] /\ LauncherFor(name) \in InjectedLaunchers

\* lines 136 to 142: what the built-in launcher does with the transport it
\* creates; it reads config.port only and calls no hook of the configuration
BuiltinLaunchSteps(config, handle) ==
    <<[step |-> "create", hook |-> "none", app |-> handle],
      [step |-> "use urlencoded", hook |-> "none", app |-> handle],
      [step |-> "use json", hook |-> "none", app |-> handle],
      [step |-> "listen", hook |-> "none", app |-> handle]>>

\* the steps of one launcher invocation; what an injected launcher does is
\* its own business
LaunchSteps(launcher, config, handle) ==
    IF launcher = BuiltinLauncher THEN BuiltinLaunchSteps(config, handle) ELSE <<>>

\* performLaunch without the launched check
performLaunchAlways(config, throws) ==
    /\ launchLog' = Append(launchLog,
            [name |-> config.name, launcher |-> LauncherFor(config.name),
             port |-> config.port, call |-> Len(calls) + 1,
             handle |-> IF throws THEN NoApp ELSE NewHandle,
             steps |-> LaunchSteps(LauncherFor(config.name), config, NewHandle)])
    /\ IF throws
       THEN UNCHANGED <<app, launched>>
       ELSE /\ app' = [app EXCEPT ![config.name] = NewHandle]
            /\ launched' = [launched EXCEPT ![config.name] = TRUE]

\* performLaunch that marks the name launched without storing the handle
performLaunchDroppingHandle(config, throws) ==
    IF ~launched[config.name]
    THEN /\ launchLog' = Append(launchLog,
                [name |-> config.name, launcher |-> LauncherFor(config.name),
                 port |-> config.port, call |-> Len(calls) + 1,
                 handle |-> IF throws THEN NoApp ELSE NewHandle,
                 steps |-> LaunchSteps(LauncherFor(config.name), config, NewHandle)])
         /\ UNCHANGED app
         /\ IF throws
            THEN UNCHANGED launched
            ELSE launched' = [launched EXCEPT ![config.name] = TRUE]
    ELSE UNCHANGED <<launchLog, app, launched>>

\* performLaunch that marks the name launched before it invokes the launcher
performLaunchMarkingFirst(config, throws) ==
    IF ~launched[config.name]
    THEN /\ launchLog' = Append(launchLog,
                [name |-> config.name, launcher |-> LauncherFor(config.name),
                 port |-> config.port, call |-> Len(calls) + 1,
                 handle |-> IF throws THEN NoApp ELSE NewHandle,
                 steps |-> LaunchSteps(LauncherFor(config.name), config, NewHandle)])
         /\ launched' = [launched EXCEPT ![config.name] = TRUE]
         /\ IF throws
            THEN UNCHANGED app
            ELSE app' = [app EXCEPT ![config.name] = NewHandle]
    ELSE UNCHANGED <<launchLog, app, launched>>

\* performLaunch(config), with the launcher invoked throwing or returning
performLaunch(config, throws) ==
    IF ~launched[config.name]
    THEN /\ launchLog' = Append(launchLog,
                [name |-> config.name, launcher |-> LauncherFor(config.name),
                 port |-> config.port, call |-> Len(calls) + 1,
                 handle |-> IF throws THEN NoApp ELSE NewHandle,
                 steps |-> LaunchSteps(LauncherFor(config.name), config, NewHandle)])
         /\ IF throws
            THEN UNCHANGED <<app, launched>>
            ELSE /\ app' = [app EXCEPT ![config.name] = NewHandle]
                 /\ launched' = [launched EXCEPT ![config.name] = TRUE]
    ELSE UNCHANGED <<launchLog, app, launched>>

\* injectLaunchCode that also forgets the name was launched
injectLaunchCodeResetting(injectedLaunch, name) ==
    /\ launch' = [launch EXCEPT ![name] = injectedLaunch]
    /\ launched' = [launched EXCEPT ![name] = FALSE]
    /\ UNCHANGED <<app, launchLog, routes, calls, requests>>

\* injectLaunchCode that keeps a launcher already injected under the name
injectLaunchCodeKeepingFirst(injectedLaunch, name) ==
    /\ launch' = [launch EXCEPT ![name] =
                      IF @ \in InjectedLaunchers THEN @ ELSE injectedLaunch]
    /\ UNCHANGED <<launched, app, launchLog, routes, calls, requests>>

\* injectLaunchCode(injectedLaunch, name = DEFAULT_NAME)
injectLaunchCode(injectedLaunch, name) ==
    /\ launch' = [launch EXCEPT ![name] = injectedLaunch]
    /\ UNCHANGED <<launched, app, launchLog, routes, calls, requests>>

\* the names callers inject launchers under; DEFAULT_NAME is the default argument
InjectNames == {DEFAULT_NAME, "n1"}

InjectLaunchCode ==
    \E l \in InjectedLaunchers, name \in InjectNames :
        /\ launch[name] # l
        /\ injectLaunchCode(l, name)
        /\ UNCHANGED injected

\* injectLaunchCode calls of a caller whose calls are recorded: each entry
\* keeps the launcher, the name and the number of launcher invocations made
\* before it
RecordedInjectLaunchCode ==
    /\ Len(injected) < MaxInjections
    /\ \E l \in InjectedLaunchers, name \in InjectNames :
          /\ injectLaunchCode(l, name)
          /\ injected' = Append(injected,
                [launcher |-> l, name |-> name, invocations |-> Len(launchLog)])

----------------------------------------------------------------------------
(* Route binder *)

Slash == <<"/">>

\* a binder that leaves out the last entry of the surface
NewRoutesButLast(handle, api, config) ==
    [i \in 1..(Len(api.methods) - 1) |->
        [app |-> handle,
         path |-> config.basePath \o Slash \o paramCase(api.methods[i]),
         method |-> api.methods[i],
         api |-> api.id,
         config |-> config,
         call |-> Len(calls) + 1]]

\* the routes one exposeApi call registers, in for-in order
NewRoutes(handle, api, config) ==
    [i \in 1..Len(api.methods) |->
        [app |-> handle,
         path |-> config.basePath \o Slash \o paramCase(api.methods[i]),
         method |-> api.methods[i],
         api |-> api.id,
         config |-> config,
         call |-> Len(calls) + 1]]

\* exposeApi(api, config) of the factory closed over sharedConfig, which
\* apiMountFactory made from factoryConfig; op and given
\* say which exposure call of the caller this is and with what configuration
exposeApi(sharedConfig, api, callConfig, throws, op, given, factoryConfig) ==
    LET config == Spread(sharedConfig, callConfig)
        entry == [op |-> op, api |-> api.id, shared |-> sharedConfig, given |-> given,
                  factory |-> factoryConfig,
                  factoryAfter |-> FactoryArgumentAfter(factoryConfig),
                  givenAfter |-> CallArgumentAfter(sharedConfig, given),
                  name |-> config.name, basePath |-> config.basePath,
                  replaced |-> Replaced(config.name)]
    IN  /\ throws => MayThrow(config.name)
        /\ performLaunch(config, throws)
        /\ IF throws
           THEN /\ calls' = Append(calls, Spread(entry, [threw |-> "launch"]))
                /\ UNCHANGED routes
           ELSE /\ calls' = Append(calls, Spread(entry, [threw |-> "no"]))
                /\ routes' = routes \o NewRoutes(app'[config.name], api, config)
        /\ UNCHANGED <<launch, requests, injected>>

\* the class name taken from the constructor only
ClassNameOfConstructor(obj) == obj.ctor

\* obj.name || obj.constructor.name
ClassName(obj) == IF obj.name # <<>> THEN obj.name ELSE obj.ctor

\* exposeClassBasedApi(obj, config) of the factory closed over sharedConfig
exposeClassBasedApi(sharedConfig, obj, callConfig, throws, factoryConfig) ==
    LET config == Spread(sharedConfig, callConfig)
        className == ClassName(obj)
    IN  IF className # <<>>
        THEN exposeApi(sharedConfig, obj,
                       [basePath |-> config.basePath \o Slash \o paramCase(className)],
                       throws, "exposeClassBasedApi", callConfig, factoryConfig)
        ELSE /\ ~throws
             /\ calls' = Append(calls,
                    [op |-> "exposeClassBasedApi", api |-> obj.id, shared |-> sharedConfig,
                     given |-> callConfig, factory |-> factoryConfig,
                     factoryAfter |-> FactoryArgumentAfter(factoryConfig),
                     givenAfter |-> CallArgumentAfter(sharedConfig, callConfig),
                     name |-> config.name,
                     basePath |-> config.basePath, replaced |-> Replaced(config.name),
                     threw |-> "config"])
             /\ UNCHANGED <<launch, launched, app, launchLog, routes, requests, injected>>

\* a caller creating a factory and making one exposure call on it, while
\* the specification has room for one more call
ExposeApi(Shareds, Calls, Apis, room) ==
    /\ room
    /\ \E shared \in Shareds, call \in Calls, api \in Apis, throws \in BOOLEAN :
          exposeApi(apiMountFactory(shared), api, call, throws, "exposeApi", call, shared)

ExposeClassBasedApi(Shareds, Calls, Apis, room) ==
    /\ room
    /\ \E shared \in Shareds, call \in Calls, api \in Apis, throws \in BOOLEAN :
          exposeClassBasedApi(apiMountFactory(shared), api, call, throws, shared)

----------------------------------------------------------------------------
(* Inputs of the launch and bind specification *)

BindShared == {EmptyConfig,
               [port |-> OtherPort],
               [name |-> "n1", basePath |-> <<"/", "s">>]}
BindCalls == {EmptyConfig,
              [name |-> "n1", beforeResponse |-> "call"],
              [basePath |-> <<"/", "o">>]}
BindApis == {PlainApi}
BindClasses == {StaticApi}

Init ==
    /\ launch = [n \in Names |-> IF n = DEFAULT_NAME THEN BuiltinLauncher ELSE NoLauncher]
    /\ launched = [n \in Names |-> FALSE]
    /\ app = [n \in Names |-> NoApp]
    /\ launchLog = <<>>
    /\ routes = <<>>
    /\ calls = <<>>
    /\ requests = <<>>
    /\ injected = <<>>

BindExposeApi ==
    ExposeApi(BindShared, BindCalls, BindApis, Len(calls) < MaxExposures)
BindExposeClassBasedApi ==
    ExposeClassBasedApi(BindShared, BindCalls, BindClasses, Len(calls) < MaxExposures)

Next ==
    \/ InjectLaunchCode
    \/ BindExposeApi
    \/ BindExposeClassBasedApi

Spec == Init /\ [][Next]_vars

----------------------------------------------------------------------------
(* Inputs of the class binding specification: class-based exposure of a    *)
(* class, an instance, a plain record and an instance of an unnamed class  *)

ClassShared == {EmptyConfig, [basePath |-> <<"/", "s">>]}
ClassCalls == {EmptyConfig, [basePath |-> <<"/", "o">>]}
ClassApis == {PlainApi, CollidingApi}
ClassClasses == {StaticApi, InstanceApi, PlainApi, AnonymousApi}

ClassExposeApi ==
    ExposeApi(ClassShared, ClassCalls, ClassApis, Len(calls) < MaxExposures)
ClassExposeClassBasedApi ==
    ExposeClassBasedApi(ClassShared, ClassCalls, ClassClasses, Len(calls) < MaxExposures)

NextClass ==
    \/ InjectLaunchCode
    \/ ClassExposeApi
    \/ ClassExposeClassBasedApi

SpecClass == Init /\ [][NextClass]_vars

----------------------------------------------------------------------------
(* Inputs of the listen specification: exposure calls whose configurations *)
(* set beforeListen at factory level, at call level, or not at all         *)

ListenShared == {EmptyConfig, [beforeListen |-> "shared"],
                 [port |-> OtherPort, beforeListen |-> "shared"]}
ListenCalls == {EmptyConfig, [beforeListen |-> "call"]}
ListenApis == {InstanceApi}
ListenClasses == {InstanceApi}

ListenExposeApi ==
    ExposeApi(ListenShared, ListenCalls, ListenApis, Len(calls) < MaxExposures)
ListenExposeClassBasedApi ==
    ExposeClassBasedApi(ListenShared, ListenCalls, ListenClasses, Len(calls) < MaxExposures)

NextListen ==
    \/ InjectLaunchCode
    \/ ListenExposeApi
    \/ ListenExposeClassBasedApi

SpecListen == Init /\ [][NextListen]_vars

----------------------------------------------------------------------------
(* Inputs of the injection specification: recorded injections, then        *)
(* exposure calls for the default name and for n1                          *)

InjectShared == {EmptyConfig, [name |-> "n1"]}
InjectCalls == {EmptyConfig}
InjectApis == {InstanceApi}

InjectExposeApi ==
    ExposeApi(InjectShared, InjectCalls, InjectApis, Len(calls) < MaxExposures)

NextInject ==
    \/ RecordedInjectLaunchCode
    \/ InjectExposeApi

SpecInject == Init /\ [][NextInject]_vars

----------------------------------------------------------------------------
(* Inputs of the segment specification: a record with one method of any    *)
(* name up to MaxNameLen characters is exposed, then a record whose method *)
(* is named by the segment of a method already bound                       *)

SegmentChars == {"a", "b", "A", "B", "1", "-", "_"}
MethodNames == UNION {[1..n -> SegmentChars] : n \in 1..MaxNameLen}

NamedApi(x) == [id |-> "named", name |-> <<>>, ctor |-> <<"O", "b", "j", "e", "c", "t">>,
                methods |-> <<x>>]

SegmentExposeApi ==
    /\ calls = <<>>
    /\ \E x \in MethodNames :
          exposeApi(apiMountFactory(EmptyConfig), NamedApi(x), EmptyConfig, FALSE,
                    "exposeApi", EmptyConfig, EmptyConfig)

SegmentExposeAgain ==
    /\ Len(calls) = 1
    /\ \E r \in DOMAIN routes :
          exposeApi(apiMountFactory(EmptyConfig), NamedApi(paramCase(routes[r].method)),
                    EmptyConfig, FALSE, "exposeApi", EmptyConfig, EmptyConfig)

NextSegment ==
    \/ SegmentExposeApi
    \/ SegmentExposeAgain

SpecSegment == Init /\ [][NextSegment]_vars

----------------------------------------------------------------------------
(* Values: handler results, failure values and response bodies *)

Value(kind, val, name, message, stack) ==
    [kind |-> kind, val |-> val, name |-> name, message |-> message, stack |-> stack]

Undefined == Value("undefined", "", "", "", "")
Plain(v) == Value("plain", v, "", "", "")
ErrorValue(message) == Value("Error", "", "Error", message, "stack")

\* instanceof that recognises no Error
InstanceOfErrorNever(e) == FALSE

\* e instanceof Error
InstanceOfError(e) == e.kind = "Error"

\* {name: e.name, message: e.message, stack: e.stack}
ErrorBody(e) == Value("object", "", e.name, e.message, e.stack)

\* JSON.stringify as res.json applies it: an Error has no enumerable
\* property of its own and is sent as the empty object
Serialize(v) == IF v.kind = "Error" THEN Value("object", "", "", "", "") ELSE v

----------------------------------------------------------------------------
(* The outgoing response of one request *)

NewResponse == [statusCode |-> 200, sent |-> FALSE, sentStatus |-> 0,
                body |-> Undefined, by |-> "nobody"]

\* res.status(code)
ResStatus(res, code) == [res EXCEPT !.statusCode = code]

\* res.json(body) on a response not yet sent; on a sent one it throws
ResJson(res, body, who) ==
    [res EXCEPT !.sent = TRUE, !.sentStatus = res.statusCode,
                !.body = Serialize(body), !.by = who]

----------------------------------------------------------------------------
(* Hooks: what one invocation of a hook does *)

HookStatus == 201
HookBody == Plain("custom")

AbsentHook == [ret |-> "undefined", effect |-> "none"]

BeforeBehaviours ==
    {[ret |-> "true", effect |-> "none"],
     [ret |-> "true", effect |-> "status"],
     [ret |-> "false", effect |-> "respond"],
     [ret |-> "false", effect |-> "none"],
     [ret |-> "undefined", effect |-> "none"],
     [ret |-> "throw", effect |-> "none"]}

AfterBehaviours ==
    {[ret |-> "undefined", effect |-> "none"],
     [ret |-> "throw", effect |-> "none"]}

Behaviours(hook, set) == IF hook = "none" THEN {AbsentHook} ELSE set

\* the response after the hook ran: res.status(201) takes effect on a sent
\* response too, res.json only on one not yet sent
HookRes(res, b) ==
    CASE b.effect = "status" -> ResStatus(res, HookStatus)
      [] b.effect = "respond" /\ ~res.sent -> ResJson(ResStatus(res, HookStatus), HookBody, "hook")
      [] b.effect = "respond" /\ res.sent -> ResStatus(res, HookStatus)
      [] OTHER -> res

\* what the hook call evaluates to; a hook that writes a sent response throws
HookRet(res, b) == IF b.effect = "respond" /\ res.sent THEN "throw" ELSE b.ret

\* res.json on a sent response throws this; a hook may throw its own error
HeadersSentError == ErrorValue("ERR_HTTP_HEADERS_SENT")
HookError == ErrorValue("hook")

\* what a throwing hook call throws: the error of res.json on a sent
\* response, or the hook's own error
HookThrown(res, b) ==
    IF b.effect = "respond" /\ res.sent
    THEN HeadersSentError ELSE HookError

\* ?? true replaced by === true: only a returned true continues
OrTrueStrict(ret) == ret = "true"

\* ?? true replaced by || true: a returned false no longer stops anything
OrTrueAlways(ret) == TRUE

\* hook?.(...) ?? true
OrTrue(ret) == ret \in {"true", "undefined"}

Event(e, hook, resp, err, ret, args) ==
    [e |-> e, hook |-> hook, resp |-> resp, err |-> err, ret |-> ret, args |-> args]

\* one invocation of a hook that is set; args are the arguments it receives
\* besides the response and the error flag
HookEvents(e, hook, resp, err, ret, args) ==
    IF hook = "none" THEN <<>> ELSE <<Event(e, hook, resp, err, ret, args)>>

\* (method, implementation, api): the implementation is the entry of the
\* surface under the method's name
BeforeExecutionArgs(route) ==
    [method |-> route.method,
     implementation |-> [api |-> route.api, method |-> route.method],
     context |-> route.api]

\* (..., method) of beforeResponse and afterResponse
MethodArg(route) == [method |-> route.method]

----------------------------------------------------------------------------
(* Dispatch pipeline: the handler exposeApi registers, lines 232 to 279 *)

\* the request bodies of the model: without args, and with two arguments
Bodies == {[hasArgs |-> FALSE, args |-> <<>>], [hasArgs |-> TRUE, args |-> <<"x", "y">>]}

\* the args array handed over as one argument
AppliedArgsAsOne(body) == IF body.hasArgs THEN <<body.args>> ELSE <<>>

\* req.body?.args || {args: []}, as implementation.apply spreads it
AppliedArgs(body) == IF body.hasArgs THEN body.args ELSE <<>>

\* how the implementation behaves when invoked
HandlerOutcomes ==
    {[kind |-> "return", val |-> Plain("ok")],
     [kind |-> "resolve", val |-> Plain("later")],
     [kind |-> "throw", val |-> ErrorValue("problem")],
     [kind |-> "reject", val |-> Plain("66")],
     [kind |-> "never", val |-> Undefined]}

NotInvoked == [kind |-> "none", val |-> Undefined]

\* the first route registered on handle h at path, 0 if there is none
MatchRoute(h, path) ==
    LET hits == {i \in DOMAIN routes : routes[i].app = h /\ routes[i].path = path}
    IN  IF hits = {} THEN 0 ELSE CHOOSE i \in hits : \A j \in hits : i <= j

\* callImplementation without async: a synchronous throw leaves the handler
callImplementationSync(q, api, body, outcome) ==
    [q EXCEPT !.pc = IF outcome.kind = "throw" THEN "uncaught" ELSE "pending",
              !.outcome = outcome,
              !.log = @ \o <<Event("implementation", api, Undefined, FALSE,
                                   outcome.kind, AppliedArgs(body))>>]

\* callImplementation calling the implementation as a bare function
callImplementationUnbound(q, api, body, outcome) ==
    [q EXCEPT !.pc = "pending", !.outcome = outcome,
              !.log = @ \o <<Event("implementation", "undefined", Undefined, FALSE,
                                   outcome.kind, AppliedArgs(body))>>]

\* lines 245 to 246 and 252: the implementation is called inside an async
\* function, so whatever it does becomes the settlement of one promise
callImplementation(q, api, body, outcome) ==
    [q EXCEPT !.pc = "pending", !.outcome = outcome,
              !.log = @ \o <<Event("implementation", api, Undefined, FALSE,
                                   outcome.kind, AppliedArgs(body))>>]

\* lines 233 to 252: beforeExecution, then the call of the implementation
handleRequest(r, body, b, outcome) ==
    LET route == routes[r]
        hook == HookOf(route.config, "beforeExecution")
        ret == HookRet(NewResponse, b)
        res == HookRes(NewResponse, b)
        q == [route |-> r, body |-> body, res |-> res,
              lastResponse |-> Undefined, error |-> FALSE, thrown |-> Undefined,
              outcome |-> NotInvoked, pc |-> "aborted",
              log |-> HookEvents("beforeExecution", hook, Undefined, FALSE, ret,
                                 BeforeExecutionArgs(route))]
    IN  IF ret = "throw" THEN [q EXCEPT !.pc = "uncaught"]
        ELSE IF ~OrTrue(ret) THEN q
        ELSE callImplementation(q, route.api, body, outcome)

\* afterResponse called only for a response that was sent
executeAfterResponseIfSent(q, a, failed) ==
    LET hook == HookOf(routes[q.route].config, "afterResponse")
        logged == [q EXCEPT !.log = @ \o HookEvents("afterResponse", hook, q.lastResponse,
                                                    q.error, a.ret,
                                                    MethodArg(routes[q.route]))]
    IN  IF ~q.res.sent THEN [q EXCEPT !.pc = "done"]
        ELSE IF a.ret = "throw"
        THEN [logged EXCEPT !.pc = failed, !.thrown = HookError]
        ELSE [logged EXCEPT !.pc = "done"]

\* config.afterResponse?.(lastResponse, error, method), and how the callback ends
executeAfterResponse(q, a, failed) ==
    LET hook == HookOf(routes[q.route].config, "afterResponse")
        logged == [q EXCEPT !.log = @ \o HookEvents("afterResponse", hook, q.lastResponse,
                                                    q.error, a.ret,
                                                    MethodArg(routes[q.route]))]
    IN  IF a.ret = "throw"
        THEN [logged EXCEPT !.pc = failed, !.thrown = HookError]
        ELSE [logged EXCEPT !.pc = "done"]

\* a then callback without the default write
writeSuccessNever(q, ret, response) == q

\* lines 254 to 259: the default write of a success
writeSuccess(q, ret, response) ==
    IF OrTrue(ret)
    THEN [q EXCEPT !.res = ResJson(q.res, response, "pipeline"),
                   !.log = @ \o <<Event("write", "none", Serialize(response), FALSE,
                                        "json", <<>>)>>]
    ELSE q

\* lines 265 to 273: the default write of a failure
writeFailure(q, ret, e) ==
    IF OrTrue(ret)
    THEN [q EXCEPT !.res = ResJson(ResStatus(q.res, 500),
                                   IF InstanceOfError(e) THEN ErrorBody(e) ELSE e,
                                   "pipeline"),
                   !.log = @ \o <<Event("write", "none",
                                        IF InstanceOfError(e) THEN ErrorBody(e)
                                        ELSE Serialize(e),
                                        TRUE, "status 500, json", <<>>)>>]
    ELSE q

\* lines 253 to 263: the callback of then
thenCallback(q, response, b, a) ==
    LET hook == HookOf(routes[q.route].config, "beforeResponse")
        ret == HookRet(q.res, b)
        hooked == [q EXCEPT !.res = HookRes(q.res, b),
                            !.log = @ \o HookEvents("beforeResponse", hook, response, FALSE,
                                                    ret, MethodArg(routes[q.route]))]
    IN  IF ret = "throw"
        THEN [hooked EXCEPT !.pc = "thenThrew", !.thrown = HookThrown(q.res, b)]
        ELSE IF OrTrue(ret) /\ hooked.res.sent
        THEN [hooked EXCEPT !.pc = "thenThrew", !.thrown = HeadersSentError]
        ELSE executeAfterResponse(
                 [writeSuccess(hooked, ret, response) EXCEPT !.lastResponse = response],
                 a, "thenThrew")

\* lines 264 to 278: the callback of catch
catchCallback(q, e, b, a) ==
    LET hook == HookOf(routes[q.route].config, "beforeResponse")
        ret == HookRet(q.res, b)
        hooked == [q EXCEPT !.res = HookRes(q.res, b),
                            !.log = @ \o HookEvents("beforeResponse", hook, e, TRUE, ret,
                                                    MethodArg(routes[q.route]))]
    IN  IF ret = "throw"
        THEN [hooked EXCEPT !.pc = "unhandled", !.thrown = HookThrown(q.res, b)]
        ELSE IF OrTrue(ret) /\ hooked.res.sent
        THEN [hooked EXCEPT !.res = ResStatus(hooked.res, 500),
                            !.pc = "unhandled", !.thrown = HeadersSentError]
        ELSE executeAfterResponse(
                 [writeFailure(hooked, ret, e) EXCEPT !.lastResponse = e, !.error = TRUE],
                 a, "unhandled")

RouteHook(q, key) == HookOf(routes[q.route].config, key)

\* a POST request with one of the given bodies arrives at a bound path of
\* a transport, while the specification has room for one more request
ReceiveRequest(room, bodies) ==
    /\ room
    /\ \E r \in DOMAIN routes, body \in bodies :
          /\ MatchRoute(routes[r].app, routes[r].path) = r
          /\ \E b \in Behaviours(HookOf(routes[r].config, "beforeExecution"), BeforeBehaviours) :
                \E outcome \in (IF OrTrue(HookRet(NewResponse, b))
                                THEN HandlerOutcomes ELSE {NotInvoked}) :
                    requests' = Append(requests, handleRequest(r, body, b, outcome))
    /\ UNCHANGED <<launch, launched, app, launchLog, routes, calls, injected>>

\* the body a client of these routes sends: the arguments under "args"
DispatchBodies == {body \in Bodies : body.hasArgs}

Receive == ReceiveRequest(Len(requests) < MaxRequests, DispatchBodies)

\* the implementation's promise is fulfilled
SettleSuccess ==
    /\ \E i \in DOMAIN requests :
          /\ requests[i].pc = "pending"
          /\ requests[i].outcome.kind \in {"return", "resolve"}
          /\ \E b \in Behaviours(RouteHook(requests[i], "beforeResponse"), BeforeBehaviours),
                a \in Behaviours(RouteHook(requests[i], "afterResponse"), AfterBehaviours) :
                requests' = [requests EXCEPT
                    ![i] = thenCallback(requests[i], requests[i].outcome.val, b, a)]
    /\ UNCHANGED <<launch, launched, app, launchLog, routes, calls, injected>>

\* the implementation threw, or its promise is rejected
SettleFailure ==
    /\ \E i \in DOMAIN requests :
          /\ requests[i].pc = "pending"
          /\ requests[i].outcome.kind \in {"throw", "reject"}
          /\ \E b \in Behaviours(RouteHook(requests[i], "beforeResponse"), BeforeBehaviours),
                a \in Behaviours(RouteHook(requests[i], "afterResponse"), AfterBehaviours) :
                requests' = [requests EXCEPT
                    ![i] = catchCallback(requests[i], requests[i].outcome.val, b, a)]
    /\ UNCHANGED <<launch, launched, app, launchLog, routes, calls, injected>>

\* a pipeline that invokes the implementation again when the callback of
\* then threw
CatchThenThrowRetrying ==
    /\ \E i \in DOMAIN requests :
          /\ requests[i].pc = "thenThrew"
          /\ requests' = [requests EXCEPT
                ![i] = callImplementation(requests[i], routes[requests[i].route].api,
                                          requests[i].body, requests[i].outcome)]
    /\ UNCHANGED <<launch, launched, app, launchLog, routes, calls, injected>>

\* the callback of then threw: catch receives what it threw
CatchThenThrow ==
    /\ \E i \in DOMAIN requests :
          /\ requests[i].pc = "thenThrew"
          /\ \E b \in Behaviours(RouteHook(requests[i], "beforeResponse"), BeforeBehaviours),
                a \in Behaviours(RouteHook(requests[i], "afterResponse"), AfterBehaviours) :
                requests' = [requests EXCEPT
                    ![i] = catchCallback(requests[i], requests[i].thrown, b, a)]
    /\ UNCHANGED <<launch, launched, app, launchLog, routes, calls, injected>>

----------------------------------------------------------------------------
(* Inputs of the dispatch specification *)

SharedHooks == [beforeExecution |-> "shared", beforeResponse |-> "shared",
                afterResponse |-> "shared"]

DispatchShared == {EmptyConfig, Spread(SharedHooks, [basePath |-> <<"/", "s">>])}
DispatchCalls == {EmptyConfig,
                  [beforeExecution |-> "call"],
                  [beforeResponse |-> "call", afterResponse |-> "call"],
                  [beforeExecution |-> "call", beforeResponse |-> "call",
                   afterResponse |-> "call", basePath |-> <<"/", "o">>]}
DispatchClassCalls == {EmptyConfig,
                       [beforeExecution |-> "call", beforeResponse |-> "call",
                        afterResponse |-> "call", basePath |-> <<"/", "o">>]}
DispatchApis == {InstanceApi}
DispatchClasses == {InstanceApi}

DispatchExposeApi ==
    ExposeApi(DispatchShared, DispatchCalls, DispatchApis, calls = <<>>)
DispatchExposeClassBasedApi ==
    ExposeClassBasedApi(DispatchShared, DispatchClassCalls, DispatchClasses, calls = <<>>)

NextDispatch ==
    \/ DispatchExposeApi
    \/ DispatchExposeClassBasedApi
    \/ Receive
    \/ SettleSuccess
    \/ SettleFailure
    \/ CatchThenThrow

SpecDispatch == Init /\ [][NextDispatch]_vars

----------------------------------------------------------------------------
(* The liveness specification: one exposure without hooks or with the      *)
(* three hooks, one request; the callbacks of a settled promise are run by *)
(* the event loop, so the settle steps are weakly fair                     *)

LiveShared == {EmptyConfig}
LiveCalls == {EmptyConfig,
              [beforeExecution |-> "call", beforeResponse |-> "call",
               afterResponse |-> "call"]}
LiveApis == {InstanceApi}

LiveExposeApi == ExposeApi(LiveShared, LiveCalls, LiveApis, calls = <<>>)

LiveReceive == ReceiveRequest(requests = <<>>, Bodies)

NextLive ==
    \/ LiveExposeApi
    \/ LiveReceive
    \/ SettleSuccess
    \/ SettleFailure
    \/ CatchThenThrow

SpecLive ==
    /\ Init
    /\ [][NextLive]_vars
    /\ WF_vars(SettleSuccess)
    /\ WF_vars(SettleFailure)
    /\ WF_vars(CatchThenThrow)

----------------------------------------------------------------------------
(* Inputs of the isolation specification: one record with two methods is   *)
(* exposed with call-level response hooks, then up to MaxInFlight requests *)
(* to its routes are received and settle in any order                      *)

IsolationShared == {EmptyConfig}
IsolationCalls == {[beforeResponse |-> "call", afterResponse |-> "call"]}
IsolationApis == {PlainApi}

IsolationExposeApi ==
    ExposeApi(IsolationShared, IsolationCalls, IsolationApis, calls = <<>>)

IsolationReceive == ReceiveRequest(Len(requests) < MaxInFlight, Bodies)

NextIsolation ==
    \/ IsolationExposeApi
    \/ IsolationReceive
    \/ SettleSuccess
    \/ SettleFailure
    \/ CatchThenThrow

SpecIsolation == Init /\ [][NextIsolation]_vars

----------------------------------------------------------------------------
(* Histories read by the properties *)

\* the launcher invocations made for a name, and those that returned a handle
Invocations(n) == {i \in DOMAIN launchLog : launchLog[i].name = n}
Created(n) == {i \in Invocations(n) : launchLog[i].handle # NoApp}

\* the exposure calls that reached performLaunch with a name
CallsFor(n) == {k \in DOMAIN calls : calls[k].name = n /\ calls[k].threw # "config"}

Max(S) == CHOOSE x \in S : \A y \in S : y <= x
Min(S) == CHOOSE x \in S : \A y \in S : x <= y

\* a launcher was explicitly injected under the name
InjectedUnder(n) ==
    IF n = DEFAULT_NAME THEN launch[n] # BuiltinLauncher ELSE launch[n] # NoLauncher

EventsOf(q, e) == {j \in DOMAIN q.log : q.log[j].e = e}

Succeeded(q) == q.outcome.kind \in {"return", "resolve"}
Failed(q) == q.outcome.kind \in {"throw", "reject"}

----------------------------------------------------------------------------
(* Launch and bind properties, under Spec *)

\* C1 as stated: for every name exposure calls resolved to, the launcher was
\* invoked exactly once and exactly one transport handle was created
C1_LaunchedExactlyOnce ==
    \A n \in Names :
        CallsFor(n) # {} =>
            /\ Cardinality(Invocations(n)) = 1
            /\ Cardinality(Created(n)) = 1

\* C1 amended: for every name at most one launcher invocation returns a handle
\* and none follows it; every call that did not complete is one invocation
\* that threw; so the launcher is invoked exactly once when it does not throw,
\* and a call that completed means exactly one handle exists, whatever the
\* number of calls
C1_IdempotentLaunch ==
    \A n \in Names :
        /\ Cardinality(Created(n)) <= 1
        /\ \A i \in Created(n) : i = Max(Invocations(n))
        /\ Cardinality(Invocations(n)) =
              Cardinality({k \in CallsFor(n) : calls[k].threw = "launch"})
                + Cardinality(Created(n))
        /\ (\E k \in CallsFor(n) : calls[k].threw = "no") =>
              /\ Cardinality(Created(n)) = 1
              /\ launched[n]
              /\ app[n] = launchLog[Max(Invocations(n))].handle

\* two completed exposure calls for one name, one launcher invocation
C1_Witness ==
    \E n \in Names :
        /\ Cardinality({k \in CallsFor(n) : calls[k].threw = "no"}) >= 2
        /\ Cardinality(Invocations(n)) = 1

\* C2 as stated: a launch for a name no launcher was injected under invokes the
\* built-in default launcher
C2_UninjectedNameUsesBuiltin ==
    [][launchLog' # launchLog =>
          LET e == launchLog'[Len(launchLog')]
          IN  ~InjectedUnder(e.name) => e.launcher = BuiltinLauncher]_vars

\* C2 amended: a launch for a name no launcher was injected under invokes the
\* launcher registered under DEFAULT_NAME at that time, which is the built-in
\* one exactly as long as none was injected under DEFAULT_NAME; a launcher
\* injected under the name itself is the one invoked
C2_UninjectedNameUsesDefaultEntry ==
    [][launchLog' # launchLog =>
          LET e == launchLog'[Len(launchLog')]
          IN  /\ ~InjectedUnder(e.name) =>
                    /\ e.launcher = launch[DEFAULT_NAME]
                    /\ e.launcher = BuiltinLauncher <=> ~InjectedUnder(DEFAULT_NAME)
              /\ InjectedUnder(e.name) => e.launcher = launch[e.name]]_vars

\* the name of the other port, never injected under, launched by a launcher
\* that was injected under DEFAULT_NAME
C2_Witness ==
    \E i \in DOMAIN launchLog :
        /\ launchLog[i].name = PortName(OtherPort)
        /\ launch[launchLog[i].name] = NoLauncher
        /\ launchLog[i].launcher \in InjectedLaunchers

\* C3: once a name's transport exists, the registry keeps that handle and no
\* launcher is invoked for the name again; an exposure call made after another
\* launcher was injected under the name invokes no launcher and registers its
\* routes on the original handle
C3_InjectAfterLaunchNoEffect ==
    /\ \A n \in Names :
          Created(n) # {} =>
              /\ app[n] = launchLog[Min(Created(n))].handle
              /\ Max(Invocations(n)) = Min(Created(n))
              /\ \A r \in DOMAIN routes :
                    routes[r].config.name = n =>
                        routes[r].app = launchLog[Min(Created(n))].handle
    /\ \A k \in DOMAIN calls :
          calls[k].replaced =>
              /\ \A i \in DOMAIN launchLog : launchLog[i].call # k
              /\ launchLog[Min(Created(calls[k].name))].call < k
              /\ \A r \in DOMAIN routes :
                    routes[r].call = k =>
                        routes[r].app = launchLog[Min(Created(calls[k].name))].handle

\* an exposure call bound routes after a launcher was injected under the name
\* of an existing transport
C3_Witness ==
    \E k \in DOMAIN calls :
        /\ calls[k].replaced
        /\ calls[k].threw = "no"
        /\ \E r \in DOMAIN routes : routes[r].call = k

\* C10 as stated: the hooks and the server name given to exposeClassBasedApi
\* are the ones in effect for the routes it binds
C10_ClassBasedHonoursCallConfig ==
    \A k \in DOMAIN calls :
        calls[k].op = "exposeClassBasedApi" =>
            \A r \in DOMAIN routes :
                routes[r].call = k =>
                    \A key \in DOMAIN calls[k].given \cap
                               {"name", "beforeExecution", "beforeResponse", "afterResponse"} :
                        /\ Has(routes[r].config, key)
                        /\ routes[r].config[key] = calls[k].given[key]

----------------------------------------------------------------------------
(* Dispatch properties, under SpecDispatch *)

\* the invocations of a hook kind in a request that went to the given level
HookCalls(q, kind, level) == {j \in EventsOf(q, kind) : q.log[j].hook = level}

\* beforeExecution returned false in the request
StoppedByBeforeExecution(q) ==
    \E j \in EventsOf(q, "beforeExecution") : q.log[j].ret = "false"

\* no hook short-circuits: beforeExecution and beforeResponse are absent or
\* returned true
NoShortCircuit(q) ==
    \A j \in EventsOf(q, "beforeExecution") \cup EventsOf(q, "beforeResponse") :
        q.log[j].ret = "true"

\* C4: when beforeExecution returns false the pipeline stops: the hook's call
\* is the only step of the request, the implementation is not invoked,
\* beforeResponse and afterResponse are not invoked, the pipeline writes
\* nothing, and no later step changes the request, so that a request the hook
\* left unanswered stays unanswered
C4_BeforeExecutionFalseStops ==
    [][\A i \in DOMAIN requests' :
          LET q == requests'[i]
          IN  StoppedByBeforeExecution(q) =>
                /\ q.pc = "aborted"
                /\ Len(q.log) = 1
                /\ q.outcome = NotInvoked
                /\ EventsOf(q, "implementation") = {}
                /\ EventsOf(q, "beforeResponse") = {}
                /\ EventsOf(q, "afterResponse") = {}
                /\ EventsOf(q, "write") = {}
                /\ q.res.by # "pipeline"
                /\ q.res.sent => (q.res.by = "hook" /\ q.res.body = HookBody)
                /\ i \in DOMAIN requests => q = requests[i]]_vars

\* beforeExecution returned false without writing: the request is unanswered
C4_Witness ==
    \E i \in DOMAIN requests :
        /\ StoppedByBeforeExecution(requests[i])
        /\ ~requests[i].res.sent
        /\ requests[i].pc = "aborted"

\* C5 as stated: in a request in which a beforeResponse call returned false,
\* on the success or on the failure outcome, the pipeline performs no default
\* write: it set no status 500 and sent no body, and what was sent, if
\* anything, is what the hook wrote
C5_BeforeResponseFalseNoDefaultWrite ==
    \A i \in DOMAIN requests :
        LET q == requests[i]
        IN  (\E j \in EventsOf(q, "beforeResponse") : q.log[j].ret = "false") =>
                /\ EventsOf(q, "write") = {}
                /\ q.res.by # "pipeline"
                /\ q.res.statusCode # 500
                /\ q.res.sent => /\ q.res.by = "hook"
                                 /\ q.res.sentStatus = HookStatus
                                 /\ q.res.body = HookBody

\* C6 as stated: when the handler succeeds and no hook short-circuits, the
\* response the pipeline wrote has status 200 and the handler's value as body
C6_SuccessWrites200 ==
    \A i \in DOMAIN requests :
        LET q == requests[i]
        IN  (Succeeded(q) /\ q.pc = "done" /\ NoShortCircuit(q)) =>
                /\ q.res.sent
                /\ q.res.by = "pipeline"
                /\ q.res.sentStatus = 200
                /\ q.res.body = q.outcome.val

\* C7: when the handler fails and no hook short-circuits, the response has
\* status 500 and its body is {name, message, stack} of a structured error,
\* the failure value itself otherwise
C7_FailureWrites500 ==
    \A i \in DOMAIN requests :
        LET q == requests[i]
            e == q.outcome.val
        IN  (Failed(q) /\ q.pc \in {"done", "unhandled"} /\ NoShortCircuit(q)) =>
                /\ q.res.sent
                /\ q.res.by = "pipeline"
                /\ q.res.sentStatus = 500
                /\ q.res.body = IF e.kind = "Error"
                                THEN Value("object", "", e.name, e.message, e.stack)
                                ELSE e

\* the handler threw an Error, beforeResponse returned true, and 500 with the
\* error's name, message and stack was sent
C7_Witness ==
    \E i \in DOMAIN requests :
        LET q == requests[i]
        IN  /\ q.outcome.kind = "throw"
            /\ q.outcome.val.kind = "Error"
            /\ \E j \in EventsOf(q, "beforeResponse") : q.log[j].ret = "true"
            /\ NoShortCircuit(q)
            /\ q.res.sentStatus = 500
            /\ q.res.body.message = "problem"

\* C8: a handler failure, thrown or rejected, never leaves the request handler:
\* the request waits for the catch callback and then takes the failure path,
\* where beforeResponse and afterResponse receive the failure value with
\* error = true, the only default write is the one with status 500, and a
\* finished request recorded error = true and the failure value
C8_HandlerFailureCaptured ==
    \A i \in DOMAIN requests :
        LET q == requests[i]
        IN  Failed(q) =>
                /\ q.pc \in {"pending", "done", "unhandled"}
                /\ \A j \in EventsOf(q, "beforeResponse") \cup EventsOf(q, "afterResponse") :
                      q.log[j].err /\ q.log[j].resp = q.outcome.val
                /\ \A j \in EventsOf(q, "write") :
                      q.log[j].ret = "status 500, json" /\ q.res.sentStatus = 500
                /\ q.pc = "done" => (q.error /\ q.lastResponse = q.outcome.val)
                /\ q.pc = "unhandled" => q.thrown \in {HookError, HeadersSentError}
                /\ (q.pc = "done" /\ \A j \in EventsOf(q, "beforeResponse") :
                                        OrTrue(q.log[j].ret)) =>
                      q.res.sentStatus = 500

\* the handler threw synchronously and the request finished on the failure
\* path with error = true
C8_Witness ==
    \E i \in DOMAIN requests :
        /\ requests[i].outcome.kind = "throw"
        /\ requests[i].pc = "done"
        /\ requests[i].error
        /\ requests[i].res.sentStatus = 500

\* C9 as stated: in a finished request to a route bound by exposeApi, a hook
\* kind set in the call configuration is invoked exactly once at call level
\* and never at shared level; a kind not set there is never invoked at call
\* level
C9_CallLevelHookExactlyOnce ==
    \A i \in DOMAIN requests :
        LET q == requests[i]
            c == calls[routes[q.route].call]
        IN  (c.op = "exposeApi" /\ q.pc = "done") =>
                \A kind \in {"beforeExecution", "beforeResponse", "afterResponse"} :
                    IF Has(c.given, kind)
                    THEN /\ Cardinality(HookCalls(q, kind, "call")) = 1
                         /\ HookCalls(q, kind, "shared") = {}
                    ELSE HookCalls(q, kind, "call") = {}

----------------------------------------------------------------------------
(* Class binding properties, under SpecClass *)

RoutesOf(k) == {r \in DOMAIN routes : routes[r].call = k}

\* C11 as stated: exposeClassBasedApi of a surface without a class (a plain
\* record, an instance of an unnamed class) fails with the configuration
\* error, binds no route and invokes no launcher
C11_ClassBasedRejectsClassless ==
    \A k \in DOMAIN calls :
        (calls[k].op = "exposeClassBasedApi" /\ calls[k].api \in {"plain", "anonymous"}) =>
            /\ calls[k].threw = "config"
            /\ RoutesOf(k) = {}
            /\ \A i \in DOMAIN launchLog : launchLog[i].call # k

\* the base path in effect for call k: the call's over the factory's, empty
\* when neither gives one
EffectiveBasePath(k) ==
    IF Has(calls[k].given, "basePath") THEN calls[k].given.basePath
    ELSE IF Has(calls[k].factory, "basePath") THEN calls[k].factory.basePath
    ELSE <<>>

\* the namespace of the model's classes: class Ab, and an instance of class Cd
NamedClasses == {"static", "instance"}
ClassPrefix(k) ==
    EffectiveBasePath(k) \o
        (IF calls[k].api = "static" THEN <<"/", "a", "b">> ELSE <<"/", "c", "d">>)

ClassCallsBound == {k \in DOMAIN calls : /\ calls[k].op = "exposeClassBasedApi"
                                         /\ calls[k].api \in NamedClasses
                                         /\ calls[k].threw = "no"}

\* C12: exposeClassBasedApi of class C binds method t at
\* basePath/segment(C)/t, basePath being the call's over the factory's; the
\* routes of two different classes exposed through one factory have different
\* prefixes and no path in common, and the handler that answers a class
\* route's path is that class's method
C12_ClassBasedPaths ==
    /\ \A k \in ClassCallsBound :
          /\ RoutesOf(k) # {}
          /\ \A r \in RoutesOf(k) :
                /\ routes[r].method = <<"t">>
                /\ routes[r].path = ClassPrefix(k) \o <<"/", "t">>
                /\ routes[r].api = calls[k].api
                /\ LET first == MatchRoute(routes[r].app, routes[r].path)
                   IN  /\ first # 0
                       /\ routes[first].api = calls[k].api
                       /\ routes[first].method = routes[r].method
          /\ Cardinality(RoutesOf(k)) = 1
    /\ \A k1, k2 \in ClassCallsBound :
          (calls[k1].factory = calls[k2].factory /\ calls[k1].api # calls[k2].api) =>
              /\ ClassPrefix(k1) # ClassPrefix(k2)
              /\ \A r1 \in RoutesOf(k1), r2 \in RoutesOf(k2) :
                    routes[r1].path # routes[r2].path

\* a class and an instance of another class exposed through factories made
\* from one configuration, under a base path, both bound on one server
C12_Witness ==
    \E k1, k2 \in ClassCallsBound :
        /\ calls[k1].api = "static"
        /\ calls[k2].api = "instance"
        /\ calls[k1].factory = calls[k2].factory
        /\ EffectiveBasePath(k1) # <<>>
        /\ \E r1 \in RoutesOf(k1), r2 \in RoutesOf(k2) : routes[r1].app = routes[r2].app

\* the segment of each method name of the model's surfaces
MethodSegment(m) ==
    CASE m = <<"a", "B">> -> <<"a", "-", "b">>
      [] m = <<"a", "b">> -> <<"a", "b">>
      [] m = <<"A", "B">> -> <<"a", "b">>
      [] OTHER -> <<"t">>

\* C13: an exposure call that completed registered one handler per entry of
\* its surface, in order, entry i at basePath/segment(name of entry i) with
\* that entry as its method, on the transport of the resolved server, and
\* nothing else; for exposeApi basePath is the call's over the factory's; a
\* call that did not complete registered nothing
C13_EveryEntryBoundOnce ==
    \A k \in DOMAIN calls :
        LET methods == SurfaceOf(calls[k].api).methods
            R == RoutesOf(k)
        IN  IF calls[k].threw = "no"
            THEN /\ Cardinality(R) = Len(methods)
                 /\ calls[k].op = "exposeApi" => calls[k].basePath = EffectiveBasePath(k)
                 /\ \A i \in 1..Len(methods) :
                       LET r == Min(R) + i - 1
                       IN  /\ r \in R
                           /\ routes[r].method = methods[i]
                           /\ routes[r].api = calls[k].api
                           /\ routes[r].path = calls[k].basePath \o <<"/">>
                                                   \o MethodSegment(methods[i])
                           /\ routes[r].app = launchLog[Min(Created(calls[k].name))].handle
                           /\ routes[r].app = app[calls[k].name]
            ELSE R = {}

\* exposeApi of the record with methods aB and t under a base path: two routes
C13_Witness ==
    \E k \in DOMAIN calls :
        /\ calls[k].op = "exposeApi"
        /\ calls[k].api = "plain"
        /\ calls[k].threw = "no"
        /\ calls[k].basePath # <<>>
        /\ Cardinality(RoutesOf(k)) = 2

\* C14 as stated: no two handlers are registered at the same path on the same
\* server
C14_OneBindingPerPath ==
    \A r1, r2 \in DOMAIN routes :
        (routes[r1].app = routes[r2].app /\ routes[r1].path = routes[r2].path) => r1 = r2

----------------------------------------------------------------------------
(* Dispatch properties, continued *)

\* the surface passed to the exposure call that bound the request's route
ExposedSurface(q) == calls[routes[q.route].call].api

\* C15: the implementation is invoked with exactly the elements of the
\* body's args, in order, and with no argument when the body has no args
C15_ArgumentFidelity ==
    \A i \in DOMAIN requests :
        LET q == requests[i]
        IN  \A j \in EventsOf(q, "implementation") :
                IF q.body.hasArgs
                THEN /\ Len(q.log[j].args) = Len(q.body.args)
                     /\ \A n \in 1..Len(q.body.args) : q.log[j].args[n] = q.body.args[n]
                ELSE q.log[j].args = <<>>

\* a request with two arguments reached the implementation with both
C15_Witness ==
    \E i \in DOMAIN requests :
        /\ requests[i].body.hasArgs
        /\ \E j \in EventsOf(requests[i], "implementation") :
              requests[i].log[j].args = <<"x", "y">>

\* C16: every invocation of the implementation has the surface passed to the
\* exposure call as its receiver, and beforeExecution receives that surface
\* as its context, with the method's name and the surface's entry of that name
C16_ReceiverIsSurface ==
    \A i \in DOMAIN requests :
        LET q == requests[i]
        IN  /\ \A j \in EventsOf(q, "implementation") :
                  q.log[j].hook = ExposedSurface(q)
            /\ \A j \in EventsOf(q, "beforeExecution") :
                  /\ q.log[j].args.context = ExposedSurface(q)
                  /\ q.log[j].args.method = routes[q.route].method
                  /\ q.log[j].args.implementation =
                        [api |-> ExposedSurface(q), method |-> routes[q.route].method]

\* beforeExecution received the exposed instance as context and the
\* implementation was then invoked on that instance
C16_Witness ==
    \E i \in DOMAIN requests :
        LET q == requests[i]
        IN  /\ \E j \in EventsOf(q, "beforeExecution") : q.log[j].args.context = "instance"
            /\ \E j \in EventsOf(q, "implementation") : q.log[j].hook = "instance"

\* the handler of the request has settled
Settled(q) == Succeeded(q) \/ Failed(q)

\* C17 as stated: every beforeResponse call receives the handler's outcome:
\* (value, false, method) when the handler succeeded, (failure value, true,
\* method) when it failed
C17_BeforeResponseGetsOutcome ==
    \A i \in DOMAIN requests :
        LET q == requests[i]
        IN  \A j \in EventsOf(q, "beforeResponse") :
                /\ Settled(q)
                /\ q.log[j].resp = q.outcome.val
                /\ q.log[j].err = Failed(q)
                /\ q.log[j].args.method = routes[q.route].method

\* C18 as stated: every afterResponse call comes after the handler settled
\* and after every beforeResponse call and default write of the request, and
\* receives the handler's outcome: (value, false, method) on success,
\* (failure value, true, method) on failure
C18_AfterResponseGetsOutcome ==
    \A i \in DOMAIN requests :
        LET q == requests[i]
        IN  \A j \in EventsOf(q, "afterResponse") :
                /\ Settled(q)
                /\ \A n \in EventsOf(q, "implementation") \cup EventsOf(q, "beforeResponse")
                            \cup EventsOf(q, "write") : n < j
                /\ q.log[j].resp = q.outcome.val
                /\ q.log[j].err = Failed(q)
                /\ q.log[j].args.method = routes[q.route].method

----------------------------------------------------------------------------
(* Listen properties, under SpecListen *)

\* the configuration in effect for exposure call k: the call's over the
\* factory's
EffectiveConfig(k) == Spread(calls[k].shared, calls[k].given)

\* the beforeListen calls made for a name, as (launcher invocation, step)
BeforeListenCalls(n) ==
    UNION {{<<i, j>> : j \in {s \in DOMAIN launchLog[i].steps :
                                  launchLog[i].steps[s].step = "beforeListen"}} :
           i \in {l \in DOMAIN launchLog : launchLog[l].name = n}}

\* C19 as stated: when the configuration in effect for an exposure call sets
\* beforeListen and the call creates the transport of its name with the
\* built-in launcher, the hook is invoked during that call, once, with the
\* created handle, after creation and before listen, and no other call is made
\* to a beforeListen hook for that name
C19_BeforeListenOnce ==
    \A k \in DOMAIN calls :
        \A i \in DOMAIN launchLog :
            (/\ launchLog[i].call = k
             /\ launchLog[i].launcher = BuiltinLauncher
             /\ Has(EffectiveConfig(k), "beforeListen")) =>
                \E j \in DOMAIN launchLog[i].steps :
                    /\ launchLog[i].steps[j] =
                          [step |-> "beforeListen", hook |-> EffectiveConfig(k).beforeListen,
                           app |-> launchLog[i].handle]
                    /\ \E c \in 1..(j - 1) : launchLog[i].steps[c].step = "create"
                    /\ \E l \in (j + 1)..Len(launchLog[i].steps) :
                          launchLog[i].steps[l].step = "listen"
                    /\ BeforeListenCalls(launchLog[i].name) = {<<i, j>>}

----------------------------------------------------------------------------
(* Naming properties, under Spec *)

\* the exposure calls given no name, by the factory's configuration or the
\* call's, and the port they resolve to
Unnamed == {k \in DOMAIN calls : /\ ~Has(calls[k].factory, "name")
                                 /\ ~Has(calls[k].given, "name")
                                 /\ calls[k].threw # "config"}
ResolvedPort(k) ==
    IF Has(calls[k].factory, "port") THEN calls[k].factory.port ELSE 3000

\* C20: an exposure call given no name resolves to the server named
\* default_ followed by its port; two such calls that completed have their
\* routes on one transport when their ports are equal, and on different
\* transports, none holding a route of the other call, when they differ
C20_NameFromPort ==
    /\ \A k \in Unnamed :
          calls[k].name = (IF ResolvedPort(k) = 3000 THEN "default_3000" ELSE "default_3001")
    /\ \A k1, k2 \in Unnamed :
          (calls[k1].threw = "no" /\ calls[k2].threw = "no") =>
              \A r1 \in RoutesOf(k1), r2 \in RoutesOf(k2) :
                  /\ routes[r1].app # NoApp
                  /\ routes[r1].app = routes[r2].app <=> ResolvedPort(k1) = ResolvedPort(k2)
                  /\ ResolvedPort(k1) # ResolvedPort(k2) =>
                        /\ MatchRoute(routes[r2].app, routes[r1].path) \notin RoutesOf(k1)
                        /\ app[calls[k1].name] # app[calls[k2].name]

\* two unnamed calls with different ports, both bound, on two transports
C20_Witness ==
    \E k1, k2 \in Unnamed :
        /\ ResolvedPort(k1) = 3000
        /\ ResolvedPort(k2) = 3001
        /\ calls[k1].threw = "no"
        /\ calls[k2].threw = "no"
        /\ \E r1 \in RoutesOf(k1), r2 \in RoutesOf(k2) : routes[r1].app # routes[r2].app

----------------------------------------------------------------------------
(* Configuration properties, under Spec *)

\* the value precedence gives a field for call k: the call's, else the
\* factory's, else the built-in default, the name defaulting to the port's
PrecedenceValue(k, key) ==
    IF Has(calls[k].given, key) THEN calls[k].given[key]
    ELSE IF Has(calls[k].factory, key) THEN calls[k].factory[key]
    ELSE IF key = "port" THEN 3000
    ELSE IF key = "basePath" THEN <<>>
    ELSE IF ResolvedPort(k) = 3000 THEN "default_3000" ELSE "default_3001"

\* the fields of the effective configuration of call k
PrecedenceKeys(k) ==
    DOMAIN calls[k].given \cup DOMAIN calls[k].factory \cup {"port", "basePath", "name"}

\* C21: the configuration in effect for an exposeApi call, the one its routes
\* and its launch use, has every field of the call configuration with the
\* call's value, every other field of the factory configuration with the
\* factory's value, port 3000 and an empty basePath when neither gives them,
\* and no other field but the name; the caller's factory configuration and
\* call configuration objects are after the call what they were before
C21_EffectiveConfigPrecedence ==
    \A k \in DOMAIN calls :
        calls[k].op = "exposeApi" =>
            /\ calls[k].factoryAfter = calls[k].factory
            /\ calls[k].givenAfter = calls[k].given
            /\ calls[k].name = PrecedenceValue(k, "name")
            /\ calls[k].basePath = PrecedenceValue(k, "basePath")
            /\ \A i \in DOMAIN launchLog :
                  launchLog[i].call = k =>
                      /\ launchLog[i].port = PrecedenceValue(k, "port")
                      /\ launchLog[i].name = PrecedenceValue(k, "name")
            /\ \A r \in RoutesOf(k) :
                  /\ DOMAIN routes[r].config = PrecedenceKeys(k)
                  /\ \A key \in PrecedenceKeys(k) :
                        routes[r].config[key] = PrecedenceValue(k, key)

\* an exposeApi call that overrides the factory's basePath, takes the
\* factory's name and the default port, and bound its routes
C21_Witness ==
    \E k \in DOMAIN calls :
        /\ calls[k].op = "exposeApi"
        /\ Has(calls[k].given, "basePath")
        /\ Has(calls[k].factory, "basePath")
        /\ calls[k].given.basePath # calls[k].factory.basePath
        /\ Has(calls[k].factory, "name")
        /\ ~Has(calls[k].given, "name")
        /\ ~Has(calls[k].factory, "port")
        /\ \E r \in RoutesOf(k) :
              /\ routes[r].config.basePath = calls[k].given.basePath
              /\ routes[r].config.name = calls[k].factory.name
              /\ routes[r].config.port = 3000

\* the exposure call an exposure step appends
LastCall == calls'[Len(calls')]

\* the exposeApi calls given a name other than their factory's
Renamed == {k \in DOMAIN calls : /\ calls[k].op = "exposeApi"
                                  /\ Has(calls[k].given, "name")
                                  /\ calls[k].given.name # calls[k].shared.name}

\* C22: an exposeApi call whose call configuration gives a name resolves to
\* that name: a launcher it invokes is invoked for that name and is the one
\* registered under it when there is one, the routes it binds are on the
\* transport of that name, and the registry entry of the factory's own name
\* is left as it was, so no transport is created for it
C22_CallNameOverridesShared ==
    [][(calls' # calls /\ LastCall.op = "exposeApi" /\ Has(LastCall.given, "name")) =>
          LET given == LastCall.given.name
              shared == LastCall.shared.name
          IN  /\ LastCall.name = given
              /\ launchLog' # launchLog =>
                    LET e == launchLog'[Len(launchLog')]
                    IN  /\ Len(launchLog') = Len(launchLog) + 1
                        /\ e.name = given
                        /\ launch[given] # NoLauncher => e.launcher = launch[given]
              /\ \A r \in DOMAIN routes' \ DOMAIN routes :
                    /\ routes'[r].app = app'[given]
                    /\ routes'[r].app # NoApp
                    /\ routes'[r].config.name = given
              /\ LastCall.threw = "no" => DOMAIN routes' # DOMAIN routes
              /\ shared # given =>
                    /\ app'[shared] = app[shared]
                    /\ launched'[shared] = launched[shared]
                    /\ \A i \in DOMAIN launchLog' \ DOMAIN launchLog :
                          launchLog'[i].name # shared]_vars

\* a factory of the default name exposed a surface under the name n1: the
\* launcher injected under n1 created the transport that holds the routes,
\* and the default name has no transport
C22_Witness ==
    \E k \in Renamed :
        /\ calls[k].threw = "no"
        /\ calls[k].shared.name = "default_3000"
        /\ calls[k].name = "n1"
        /\ \E i \in DOMAIN launchLog :
              /\ launchLog[i].call = k
              /\ launchLog[i].name = "n1"
              /\ launchLog[i].launcher \in InjectedLaunchers
              /\ \A r \in RoutesOf(k) : routes[r].app = launchLog[i].handle
        /\ RoutesOf(k) # {}
        /\ app["default_3000"] = NoApp

----------------------------------------------------------------------------
(* Injection properties, under SpecInject *)

\* the injections made under name n before launcher invocation i
InjectedBefore(n, i) ==
    {j \in DOMAIN injected : injected[j].name = n /\ injected[j].invocations < i}

\* C23: a launch for a name launchers were injected under invokes the last
\* one injected under it before the launch, once, and no other launcher; so
\* when several were injected before the name's first use, the earlier ones
\* are not invoked by that launch
C23_LastInjectedWins ==
    \A i \in DOMAIN launchLog :
        LET n == launchLog[i].name
            before == InjectedBefore(n, i)
        IN  before # {} =>
                /\ launchLog[i].launcher = injected[Max(before)].launcher
                /\ \A k \in DOMAIN calls :
                      Cardinality({m \in Invocations(n) : launchLog[m].call = k}) <= 1

\* L1 then L2 were injected under n1 before its first use, the first launch
\* of n1 invoked L2 and created the transport, and L1 was never invoked
C23_Witness ==
    \E i \in DOMAIN launchLog :
        /\ launchLog[i].name = "n1"
        /\ i = Min(Invocations("n1"))
        /\ launched["n1"]
        /\ \E j1, j2 \in InjectedBefore("n1", i) :
              /\ j1 < j2
              /\ j2 = Max(InjectedBefore("n1", i))
              /\ injected[j1].launcher = "L1"
              /\ injected[j2].launcher = "L2"
        /\ launchLog[i].launcher = "L2"
        /\ \A m \in DOMAIN launchLog : launchLog[m].launcher # "L1"

----------------------------------------------------------------------------
(* Segment properties, under SpecSegment *)

\* the part of a route's path after the leading slash
SegmentOf(r) == Tail(routes[r].path)

\* C24: the segment of a method name is a function of the name, and the
\* segment of a segment is that segment: a method named by the segment of
\* another method is bound at the other method's path, and two routes of one
\* method name have one path
C24_SegmentStable ==
    \A r \in DOMAIN routes :
        /\ SegmentOf(r) = paramCase(routes[r].method)
        /\ paramCase(SegmentOf(r)) = SegmentOf(r)
        /\ \A r2 \in DOMAIN routes :
              /\ routes[r2].method = routes[r].method => routes[r2].path = routes[r].path
              /\ routes[r2].method = SegmentOf(r) => routes[r2].path = routes[r].path

\* method aB1 is bound at /a-b1, and the method named a-b1 at the same path
C24_Witness ==
    \E r1, r2 \in DOMAIN routes :
        /\ routes[r1].method = <<"a", "B", "1">>
        /\ routes[r1].path = <<"/", "a", "-", "b", "1">>
        /\ routes[r2].method = <<"a", "-", "b", "1">>
        /\ routes[r2].path = routes[r1].path

----------------------------------------------------------------------------
(* Dispatch properties: invocation of the handler *)

\* C25: a request has at most one invocation of the implementation, exactly
\* one once it passed beforeExecution and none otherwise, whatever the hooks
\* returned or threw and whether the handler failed; the invocation comes
\* before every beforeResponse, write and afterResponse step
C25_HandlerInvokedAtMostOnce ==
    \A i \in DOMAIN requests :
        LET q == requests[i]
            inv == EventsOf(q, "implementation")
        IN  /\ Cardinality(inv) <= 1
            /\ Cardinality(inv) = (IF q.outcome = NotInvoked THEN 0 ELSE 1)
            /\ q.pc \in {"aborted", "uncaught"} => inv = {}
            /\ \A j \in inv :
                  \A n \in EventsOf(q, "beforeResponse") \cup EventsOf(q, "write")
                            \cup EventsOf(q, "afterResponse") : j < n

\* the handler succeeded, a hook threw in the callback of then, the catch
\* callback ran the response step again, and the handler was invoked once
C25_Witness ==
    \E i \in DOMAIN requests :
        LET q == requests[i]
        IN  /\ Succeeded(q)
            /\ q.pc \in {"done", "unhandled"}
            /\ Cardinality(EventsOf(q, "beforeResponse")) = 2
            /\ Cardinality(EventsOf(q, "implementation")) = 1

\* the response step of the request is over: the last callback returned or
\* threw out of the chain
Finished(q) == q.pc \in {"done", "unhandled"}

\* C26 as stated: in a request whose handler settled and whose response step
\* is over, beforeResponse, if set, was invoked exactly once, and the default
\* write was performed at most once
C26_BeforeResponseExactlyOnce ==
    \A i \in DOMAIN requests :
        LET q == requests[i]
        IN  (Settled(q) /\ Finished(q)) =>
                /\ RouteHook(q, "beforeResponse") # "none" =>
                      Cardinality(EventsOf(q, "beforeResponse")) = 1
                /\ Cardinality(EventsOf(q, "write")) <= 1

\* C27 as stated: in a request whose handler settled and whose response step
\* is over, afterResponse, if set, was invoked exactly once, with the error
\* flag of the handler's outcome
C27_AfterResponseExactlyOnce ==
    \A i \in DOMAIN requests :
        LET q == requests[i]
        IN  (Settled(q) /\ Finished(q) /\ RouteHook(q, "afterResponse") # "none") =>
                /\ Cardinality(EventsOf(q, "afterResponse")) = 1
                /\ \A j \in EventsOf(q, "afterResponse") : q.log[j].err = Failed(q)

----------------------------------------------------------------------------
(* Launch failure properties, under Spec *)

\* C28: an exposure call during which the launcher throws ends with that
\* error: it invoked the launcher once, bound no route, and left the registry
\* as it was, with no transport and no launched mark for the name
C28_LaunchFailureAborts ==
    [][(calls' # calls /\ LastCall.threw = "launch") =>
          /\ Len(launchLog') = Len(launchLog) + 1
          /\ launchLog'[Len(launchLog')].call = Len(calls')
          /\ launchLog'[Len(launchLog')].name = LastCall.name
          /\ launchLog'[Len(launchLog')].handle = NoApp
          /\ routes' = routes
          /\ app' = app
          /\ launched' = launched
          /\ app'[LastCall.name] = NoApp
          /\ ~launched'[LastCall.name]]_vars

\* the launcher injected under n1 threw during exposeClassBasedApi of a
\* class: nothing is bound and n1 has no registry entry
C28_Witness ==
    \E k \in DOMAIN calls :
        /\ calls[k].threw = "launch"
        /\ calls[k].op = "exposeClassBasedApi"
        /\ calls[k].name = "n1"
        /\ RoutesOf(k) = {}
        /\ app["n1"] = NoApp
        /\ ~launched["n1"]
        /\ \E i \in DOMAIN launchLog :
              launchLog[i].call = k /\ launchLog[i].launcher \in InjectedLaunchers

\* C29 as stated: once a launcher has thrown for a name, no launcher is
\* invoked for that name again and no transport is created for it
C29_LaunchFailureFatal ==
    \A n \in Names :
        \A i \in Invocations(n) :
            launchLog[i].handle = NoApp =>
                /\ \A j \in Invocations(n) : j <= i
                /\ app[n] = NoApp

----------------------------------------------------------------------------
(* Isolation properties, under SpecIsolation *)

\* the response hook calls of a request
ResponseHookCalls(q) == EventsOf(q, "beforeResponse") \cup EventsOf(q, "afterResponse")

\* C30 as stated: with two requests received, in whatever order their steps
\* interleave, every beforeResponse and afterResponse call of a request
\* receives the value and the error flag of that request's own handler
\* invocation
C30_RequestIsolation ==
    Len(requests) >= 2 =>
        \A i \in DOMAIN requests :
            LET q == requests[i]
            IN  \A j \in ResponseHookCalls(q) :
                    /\ q.log[j].resp = q.outcome.val
                    /\ q.log[j].err = Failed(q)

----------------------------------------------------------------------------
(* Liveness properties, under SpecLive *)

\* the request of the liveness specification was received, passed
\* beforeExecution, and its handler settles
AwaitingSettled ==
    /\ requests # <<>>
    /\ requests[1].pc = "pending"
    /\ Settled(requests[1])

\* beforeResponse is absent, or a call of it returned true
BeforeResponseAllowed(q) ==
    \/ RouteHook(q, "beforeResponse") = "none"
    \/ \E j \in EventsOf(q, "beforeResponse") : q.log[j].ret = "true"

\* the pipeline wrote a default response for the request
DefaultWritten(q) ==
    /\ EventsOf(q, "write") # {}
    /\ q.res.sent
    /\ q.res.by = "pipeline"

\* the response step of the request ran, and wrote a default response if
\* beforeResponse allowed it
Responded ==
    /\ requests # <<>>
    /\ requests[1].pc # "pending"
    /\ BeforeResponseAllowed(requests[1]) => DefaultWritten(requests[1])

\* a request whose handler never settles has no response written and no
\* beforeResponse or afterResponse call
NeverSettledStaysPending ==
    \A i \in DOMAIN requests :
        requests[i].outcome.kind = "never" =>
            /\ requests[i].pc = "pending"
            /\ ~requests[i].res.sent
            /\ EventsOf(requests[i], "write") = {}
            /\ ResponseHookCalls(requests[i]) = {}

\* C31: a request that passed beforeExecution and whose handler settles
\* eventually has its response step run, with a default response written
\* when beforeResponse is absent or returned true; a request whose handler
\* never settles never has a response written nor a response hook invoked
C31_RequestLiveness ==
    /\ AwaitingSettled ~> Responded
    /\ []NeverSettledStaysPending

\* the handler resolved later, beforeResponse returned true, and the
\* pipeline wrote the value with status 200
C31_Witness ==
    /\ requests # <<>>
    /\ requests[1].outcome.kind = "resolve"
    /\ \E j \in EventsOf(requests[1], "beforeResponse") : requests[1].log[j].ret = "true"
    /\ DefaultWritten(requests[1])
    /\ requests[1].res.sentStatus = 200
    /\ requests[1].pc = "done"

----------------------------------------------------------------------------
(* Dispatch properties: hook results, under SpecDispatch *)

\* the step that follows step j of the request is of kind e
FollowedBy(q, j, e) == j < Len(q.log) /\ q.log[j + 1].e = e

\* step j of the request is its last, and the default write that came after
\* it threw because the response had been sent before
WriteAfterThrew(q, j) ==
    /\ j = Len(q.log)
    /\ q.pc = "unhandled"
    /\ q.thrown = HeadersSentError
    /\ q.res.sent

\* C32: a beforeExecution call that returned nothing is followed by the
\* invocation of the implementation, as one that returned true is; a
\* beforeResponse call that returned nothing or true is followed by the
\* default write, which goes through or, on a response sent before, throws;
\* a request is aborted before invocation only by a returned false, and a
\* beforeResponse call is followed by no default write only when it returned
\* false or threw
C32_UndefinedTreatedAsTrue ==
    \A i \in DOMAIN requests :
        LET q == requests[i]
        IN  /\ \A j \in EventsOf(q, "beforeExecution") :
                  /\ q.log[j].ret \in {"undefined", "true"} =>
                        /\ FollowedBy(q, j, "implementation")
                        /\ q.pc # "aborted"
                  /\ q.pc = "aborted" => q.log[j].ret = "false"
            /\ q.pc = "aborted" => EventsOf(q, "beforeExecution") # {}
            /\ \A j \in EventsOf(q, "beforeResponse") :
                  /\ q.log[j].ret \in {"undefined", "true"} =>
                        \/ FollowedBy(q, j, "write")
                        \/ WriteAfterThrew(q, j)
                  /\ (~FollowedBy(q, j, "write") /\ ~WriteAfterThrew(q, j)) =>
                        q.log[j].ret \in {"false", "throw"}

\* both hooks are set and returned nothing: the implementation was invoked
\* and its value was written with status 200
C32_Witness ==
    \E i \in DOMAIN requests :
        LET q == requests[i]
        IN  /\ \E j \in EventsOf(q, "beforeExecution") : q.log[j].ret = "undefined"
            /\ \E j \in EventsOf(q, "beforeResponse") :
                  q.log[j].ret = "undefined" /\ FollowedBy(q, j, "write")
            /\ EventsOf(q, "implementation") # {}
            /\ q.res.sentStatus = 200
            /\ q.res.body = q.outcome.val

\* C33: a beforeResponse call that returned false is followed at once, with
\* no default write, by the afterResponse call when afterResponse is set,
\* with the value and error flag beforeResponse received; a request that
\* beforeExecution aborted by returning false has no afterResponse call
C33_AfterResponseDespiteNoWrite ==
    \A i \in DOMAIN requests :
        LET q == requests[i]
        IN  /\ \A j \in EventsOf(q, "beforeResponse") :
                  (q.log[j].ret = "false" /\ RouteHook(q, "afterResponse") # "none") =>
                      /\ FollowedBy(q, j, "afterResponse")
                      /\ q.log[j + 1].resp = q.log[j].resp
                      /\ q.log[j + 1].err = q.log[j].err
            /\ StoppedByBeforeExecution(q) => EventsOf(q, "afterResponse") = {}
            /\ \A j \in EventsOf(q, "afterResponse") : Settled(q)

\* the handler succeeded, beforeResponse returned false without writing, the
\* pipeline wrote nothing, and afterResponse was invoked with the value
C33_Witness ==
    \E i \in DOMAIN requests :
        LET q == requests[i]
        IN  /\ Succeeded(q)
            /\ q.pc = "done"
            /\ \E j \in EventsOf(q, "beforeResponse") : q.log[j].ret = "false"
            /\ EventsOf(q, "write") = {}
            /\ ~q.res.sent
            /\ \E j \in EventsOf(q, "afterResponse") :
                  q.log[j].resp = q.outcome.val /\ ~q.log[j].err

----------------------------------------------------------------------------
(* Frame properties, under Spec *)

\* the base path the routes of call k have when they use the call's
\* effective configuration: for a class-based call, with the namespace of
\* the class appended
EffectiveRouteBasePath(k) ==
    IF calls[k].op = "exposeClassBasedApi"
    THEN EffectiveConfig(k).basePath \o Slash \o paramCase(ClassName(SurfaceOf(calls[k].api)))
    ELSE EffectiveConfig(k).basePath

\* C34 as stated: every route has the hooks and the base path of the
\* effective configuration of the exposure call that bound it, whatever
\* other calls of the same factory were given, and calls of one factory all
\* see one shared configuration
C34_RouteUsesOwnCallConfig ==
    \A k \in DOMAIN calls :
        /\ \A r \in RoutesOf(k) :
              /\ \A hook \in {"beforeExecution", "beforeResponse", "afterResponse"} :
                    HookOf(routes[r].config, hook) = HookOf(EffectiveConfig(k), hook)
              /\ routes[r].config.basePath = EffectiveRouteBasePath(k)
        /\ \A k2 \in DOMAIN calls :
              calls[k2].factory = calls[k].factory => calls[k2].shared = calls[k].shared

----------------------------------------------------------------------------
(* Registry properties, under Spec *)

\* C35: a name is marked launched exactly when a launcher invocation for it
\* has returned; a launched name has the handle that invocation returned
\* stored, and a name not launched has none; the routes of every exposure
\* call that completed are on the handle stored for the call's name
C35_RegistryConsistent ==
    /\ \A n \in Names :
          /\ launched[n] <=> Created(n) # {}
          /\ launched[n] =>
                /\ app[n] # NoApp
                /\ \E i \in Created(n) : app[n] = launchLog[i].handle
          /\ ~launched[n] => app[n] = NoApp
    /\ \A k \in DOMAIN calls :
          calls[k].threw = "no" =>
              /\ launched[calls[k].name]
              /\ RoutesOf(k) # {}
              /\ \A r \in RoutesOf(k) : routes[r].app = app[calls[k].name]

\* the launcher of a name threw in one exposure call and returned in the
\* next: the name is launched and the second call's routes are on its handle
C35_Witness ==
    \E n \in Names :
        /\ launched[n]
        /\ Cardinality(Invocations(n)) = 2
        /\ Cardinality(Created(n)) = 1
        /\ \E k \in CallsFor(n) :
              /\ calls[k].threw = "no"
              /\ \E r \in RoutesOf(k) : routes[r].app = app[n]

====
